---- MODULE Spec2Model ----
(***************************************************************************)
(* The sentence recurrence of the gated graph transformer network          *)
(* (Model.setup._build in model.py): the scan over sentences, the stages   *)
(* of _iter_fn, the new-node matching loss, the masked edge loss and the   *)
(* aggregation of the final graph.                                         *)
(*                                                                         *)
(* One batch element is modelled: every tensor operation of _iter_fn acts  *)
(* on the batch elements independently.  gstate.node_states is not         *)
(* modelled: no property below reads it.                                   *)
(*                                                                         *)
(* Numbers.  A strength, an id weight or an edge strength is a value v of  *)
(* Grid and stands for v/One, i.e. 0, 1/2 or 1.  A log-likelihood is an    *)
(* integer in units of log 2: LogEps tabulates log2(x + EPSILON) on the    *)
(* grid.  Products of grid values keep their scale (a product of a grid    *)
(* value and a log is in units of 1/One, and so on).                       *)
(***************************************************************************)
EXTENDS Integers, Sequences, FiniteSets, TLC

\* ------------------------------------------------------------------ bounds
\* The longest input, in sentences.
MaxSentences == 2
\* The longest first axis of a sampled dropout mask.
MaxMaskLen == 2
\* The most new nodes per sentence for which the node loss is computed alone.
MaxNewNodes == 3
\* The largest batch for which the loss is composed.
MaxBatch == 2
\* The most train calls made on one model.
MaxTrainCalls == 5

\* --------------------------------------------------------------- numbers
Grid == 0..2
One == CHOOSE v \in Grid : \A w \in Grid : w <= v
Half == One \div 2

\* log2 of util.EPSILON, the constant added inside every logarithm.
LogEpsilon == -2

\* T.log(x + util.EPSILON) for x = v/One, in units of log 2.
LogEps(v) == IF v = 0 THEN LogEpsilon ELSE v - One

Min2(a, b) == IF a <= b THEN a ELSE b

RECURSIVE SumOver(_, _)
\* The sum of f[x] over the finite set S.
SumOver(f, S) ==
    IF S = {} THEN 0
    ELSE LET x == CHOOSE y \in S : TRUE IN f[x] + SumOver(f, S \ {x})

\* ------------------------------------------------------------ id vectors
\* The one-hot id vector of width n for index d, and the all-zero vector.
OneHot(n, d) == [i \in 1..n |-> IF i = d THEN One ELSE 0]
ZeroIds(n) == [i \in 1..n |-> 0]
\* Half the mass on d and half on the next index.
SplitIds(n, d) == [i \in 1..n |-> IF i = d \/ i = (d % n) + 1 THEN Half ELSE 0]

\* util.independent_best: the most likely value of an independent Bernoulli.
independent_best(v) == IF 2 * v > One THEN One ELSE 0

\* util.categorical_best: the one-hot vector of the most likely id (argmax
\* takes the first of equal maxima).
categorical_best(ids) ==
    LET n == Cardinality(DOMAIN ids)
        best == CHOOSE d \in 1..n :
                    /\ \A e \in 1..n : ids[e] <= ids[d]
                    /\ \A e \in 1..(d - 1) : ids[e] < ids[d]
    IN OneHot(n, best)

\* ------------------------------------------------------------- GraphState
num_edge_types == 1

Triples(n) == (1..n) \X (1..n) \X (1..num_edge_types)

\* GraphState.create_empty
create_empty ==
    [n_nodes |-> 0, node_strengths |-> <<>>, node_ids |-> <<>>,
     edge_strengths |-> [p \in Triples(0) |-> 0]]

\* GraphState.create_full_unique: one node of strength 1 per id.
create_full_unique(n) ==
    [n_nodes |-> n,
     node_strengths |-> [i \in 1..n |-> One],
     node_ids |-> [i \in 1..n |-> OneHot(n, i)],
     edge_strengths |-> [p \in Triples(n) |-> 0]]

\* GraphState.with_additional_nodes: a pure append; the edges of the new
\* rows and columns are zero.
with_additional_nodes(g, new_strengths, new_ids) ==
    LET n == g.n_nodes + Len(new_strengths) IN
    [n_nodes |-> n,
     node_strengths |-> g.node_strengths \o new_strengths,
     node_ids |-> g.node_ids \o new_ids,
     edge_strengths |->
        [p \in Triples(n) |->
            IF p[1] <= g.n_nodes /\ p[2] <= g.n_nodes
            THEN g.edge_strengths[p] ELSE 0]]

\* GraphState.with_updates(edge_strengths=...)
with_updates_edges(g, e) == [g EXCEPT !.edge_strengths = e]

\* GraphState.flatten_to_const_size: zero padding up to pad slots; the node
\* count travels with the padded tensors.
flatten_to_const_size(g, pad, nids) ==
    [n_nodes |-> g.n_nodes,
     node_strengths |->
        [i \in 1..pad |-> IF i <= g.n_nodes THEN g.node_strengths[i] ELSE 0],
     node_ids |->
        [i \in 1..pad |-> IF i <= g.n_nodes THEN g.node_ids[i] ELSE ZeroIds(nids)],
     edge_strengths |->
        [p \in Triples(pad) |->
            IF p[1] <= g.n_nodes /\ p[2] <= g.n_nodes
            THEN g.edge_strengths[p] ELSE 0]]

\* The flat tensors cut to n node slots.
Unflatten(f, n) ==
    [n_nodes |-> n,
     node_strengths |-> [i \in 1..n |-> f.node_strengths[i]],
     node_ids |-> [i \in 1..n |-> f.node_ids[i]],
     edge_strengths |-> [p \in Triples(n) |-> f.edge_strengths[p]]]

\* GraphState.unflatten_from_const_size
unflatten_from_const_size(f) == Unflatten(f, f.n_nodes)

\* ------------------------------------------------- new-node matching loss
\* Only the rotations of the slots.
perm_idxs_rotations(k) ==
    {[j \in 1..k |-> ((j + a - 1) % k) + 1] : a \in 0..(k - 1)}

\* perm_idxs: itertools.permutations(range(new_nodes_per_iter)).
perm_idxs(k) ==
    {p \in [1..k -> 1..k] : \A a, b \in 1..k : p[a] = p[b] => a = b}

\* correct_new_strengths[:, perm_idxs] and correct_new_node_ids[:, perm_idxs]:
\* slot j of the permuted ground truth is ground-truth slot p[j].
permuted_correct_str(correct_new_strengths, p) ==
    [j \in DOMAIN p |-> correct_new_strengths[p[j]]]
permuted_correct_ids(correct_new_node_ids, p) ==
    [j \in DOMAIN p |-> correct_new_node_ids[p[j]]]

\* One slot's Bernoulli term of strength_ll (scale One).
strength_ll(c, s) == c * LogEps(s) + (One - c) * LogEps(One - s)

\* One slot's categorical term of ids_ll, summed over the ids (scale One).
ids_ll(cids, ids) ==
    SumOver([d \in DOMAIN ids |-> cids[d] * LogEps(ids[d])], DOMAIN ids)

\* reduced_perm_lls of one permutation: the sum over the slots (scale One).
reduced_perm_lls(new_strengths, new_ids, correct_new_strengths, correct_new_node_ids, p) ==
    LET pstr == permuted_correct_str(correct_new_strengths, p)
        pids == permuted_correct_ids(correct_new_node_ids, p)
        K == DOMAIN p
    IN SumOver([j \in K |-> strength_ll(pstr[j], new_strengths[j])], K)
       + SumOver([j \in K |-> ids_ll(pids[j], new_ids[j])], K)

\* All permutation log-likelihoods of one step.
AllPermLls(new_strengths, new_ids, correct_new_strengths, correct_new_node_ids) ==
    [p \in perm_idxs(Len(new_strengths)) |->
        reduced_perm_lls(new_strengths, new_ids,
                         correct_new_strengths, correct_new_node_ids, p)]

\* T.max over the permutation axis.
MaxOf(f) == CHOOSE m \in {f[x] : x \in DOMAIN f} : \A x \in DOMAIN f : f[x] <= m

\* Only the first permutation is scored.
node_loss_first(ns, ni, cs, ci) ==
    -reduced_perm_lls(ns, ni, cs, ci, [j \in 1..Len(ns) |-> j])

\* node_loss with best_node_match_only (scale One).
node_loss_best(new_strengths, new_ids, correct_new_strengths, correct_new_node_ids) ==
    -MaxOf(AllPermLls(new_strengths, new_ids, correct_new_strengths, correct_new_node_ids))

RECURSIVE Pow2(_)
Pow2(n) == IF n <= 0 THEN 1 ELSE 2 * Pow2(n - 1)

RECURSIVE Factorial(_)
Factorial(n) == IF n <= 0 THEN 1 ELSE n * Factorial(n - 1)

RECURSIVE GCD(_, _)
GCD(a, b) == IF b = 0 THEN a ELSE GCD(b, a % b)

\* A real logarithm that is no integer is kept exactly, as the ratio it is
\* the log2 of: [num, den] stands for log2(num/den), in lowest terms.
LogOf(a, b) == LET g == GCD(a, b) IN [num |-> a \div g, den |-> b \div g]
LogSub(x, y) == LogOf(x.num * y.den, x.den * y.num)
LogNeg(x) == [num |-> x.den, den |-> x.num]

\* The least log-likelihood k slots can have, in units of log 2.
LlFloor(k) == 2 * k * LogEpsilon

\* util.reduce_log_sum over the permutation axis: log of the sum of the
\* exponentials.  lls is in scale One and the ground truth is hard (0 or 1),
\* so lls[p] \div One is the log-likelihood itself.
reduce_log_sum(lls, k) ==
    LogOf(SumOver([p \in DOMAIN lls |-> Pow2((lls[p] \div One) - LlFloor(k))],
                  DOMAIN lls),
          Pow2(-LlFloor(k)))

\* gammaln taken of k - c, without the + 1.
log_rep_factor_off(k, correct_num_new_nodes) ==
    LogOf(Factorial(k - correct_num_new_nodes - 1), 1)

\* T.gammaln(new_nodes_per_iter - correct_num_new_nodes + 1)
log_rep_factor(k, correct_num_new_nodes) ==
    LogOf(Factorial(k - correct_num_new_nodes), 1)

\* node_loss without best_node_match_only: -(full_ll - log_rep_factor).
node_loss_sum(new_strengths, new_ids, correct_num_new_nodes, correct_new_strengths, correct_new_node_ids) ==
    LET k == Len(new_strengths)
        full_ll == reduce_log_sum(
                       AllPermLls(new_strengths, new_ids,
                                  correct_new_strengths, correct_new_node_ids), k)
        scaled_ll == LogSub(full_ll, log_rep_factor(k, correct_num_new_nodes))
    IN LogNeg(scaled_ll)

\* ------------------------------------------------------------- edge loss
\* edge_lls of one (source, destination, type) entry (scale One).
edge_lls(c, e) == c * LogEps(e) + (One - c) * LogEps(One - e)

\* The destination mask is left out.
masked_edge_lls_src_only(c, e, src_strength, dest_strength) ==
    edge_lls(c, e) * src_strength * One

\* masked_edge_lls: edge_lls * mask_src * mask_dest (scale One^3).
masked_edge_lls(c, e, src_strength, dest_strength) ==
    edge_lls(c, e) * src_strength * dest_strength

\* correct_edges[:, :n_nodes, :n_nodes, :]
cropped_correct_edges(correct_edges, n) == [p \in Triples(n) |-> correct_edges[p]]

\* edge_loss of one step: minus the sum of the masked terms (scale One^3).
EdgeLoss(g, correct_edges) ==
    LET cropped == cropped_correct_edges(correct_edges, g.n_nodes) IN
    -SumOver([p \in Triples(g.n_nodes) |->
                masked_edge_lls(cropped[p], g.edge_strengths[p],
                                g.node_strengths[p[1]], g.node_strengths[p[2]])],
             Triples(g.n_nodes))

\* ------------------------------------------------------------ accuracy
\* itertools.permutations yields the permutations in lexicographic order.
PermBefore(p, q) ==
    \E j \in DOMAIN p : p[j] < q[j] /\ \A i \in 1..(j - 1) : p[i] = q[i]

\* best_match_idx: T.argmax takes the first of the most likely permutations.
best_match_idx(new_strengths, new_ids, correct_new_strengths, correct_new_node_ids) ==
    LET lls == AllPermLls(new_strengths, new_ids,
                          correct_new_strengths, correct_new_node_ids)
        best == {p \in DOMAIN lls : lls[p] = MaxOf(lls)}
    IN CHOOSE p \in best : \A q \in best : ~PermBefore(q, p)

\* snapped_ids: the one-hot best id times the snapped strength.
snapped_ids(ids, s) ==
    [d \in DOMAIN ids |-> (categorical_best(ids)[d] * independent_best(s)) \div One]

\* node_accuracy: close_strengths and close_ids under the best permutation.
NodeAccuracy(strs, ids, c) ==
    LET p == best_match_idx(strs, ids, c.new_strengths, c.new_node_ids)
        best_correct_str == permuted_correct_str(c.new_strengths, p)
        best_correct_ids == permuted_correct_ids(c.new_node_ids, p)
        close_strengths == \A j \in DOMAIN strs :
                              best_correct_str[j] = independent_best(strs[j])
        close_ids == \A j \in DOMAIN strs :
                        best_correct_ids[j] = snapped_ids(ids[j], strs[j])
    IN close_strengths /\ close_ids

\* ok_mask: the inverse of mask_src * mask_dest cast to bool.
ok_mask(src_strength, dest_strength) == ~(src_strength * dest_strength # 0)

\* edge_accuracy: every entry is close or excused by ok_mask.
EdgeAccuracy(g, correct_edges) ==
    LET cropped == cropped_correct_edges(correct_edges, g.n_nodes) IN
    \A p \in Triples(g.n_nodes) :
        \/ cropped[p] = independent_best(g.edge_strengths[p])
        \/ ok_mask(g.node_strengths[p[1]], g.node_strengths[p[2]])

\* overall_accuracy: edge_accuracy if node_accuracy is None, else both.
OverallAccuracy(na, ea) == IF na = <<>> THEN ea ELSE na[1] /\ ea

\* The last step alone decides.
GraphAccurateLastStep(acc) == acc = <<>> \/ acc[Len(acc)]

\* graph_accurate_list = T.all(full_graph_accuracy, 0)
GraphAccurate(acc) == \A i \in DOMAIN acc : acc[i]

\* ------------------------------------------------------- the recurrence
VARIABLES
    cfg,            \* the constructor's options (Model.__init__)
    build,          \* which of setup's four _build calls is running
    n_sentences,    \* input_words.shape[1]
    iter_dropouts,  \* the dropout mask sampled for this forward pass
    graph,          \* the ground-truth sequences given to the call, a slice per sentence
    pc,             \* the position inside the scan
    t,              \* sentence steps completed
    flat,           \* the loop-carried flattened graph state
    gstate,         \* the graph state inside _iter_fn
    correct,        \* this step's slice of the ground-truth sequences
    dropout_masks,  \* what _scan_fn hands to _iter_fn as dropout_masks
    new_strengths,  \* candidate strengths of this step
    new_ids,        \* candidate id distributions of this step
    node_loss,      \* <<>> for None, else <<the step's node loss>>
    edge_loss,      \* <<>> for None, else <<the step's edge loss>>
    trace,          \* the stages this step has run, each with the n_nodes it saw
    handed_masks,   \* every dropout_masks value _iter_fn has received in this pass
    edge_loss_change, \* by how much the summed edge loss of the steps so far moves
                    \* when ground-truth edges at zero-strength nodes are altered
    sequence_representation, \* the constructor's option of that name
    all_flat_gstates, \* the scan's output: the flattened state after every step
    activations,    \* per node slot, what the aggregator's layer computes
    final_gstate,   \* <<>>, or the states handed to the query path
    aggregated_repr, \* <<>>, or the aggregator's result for each of them
    train_with_query, \* the constructor's option of that name
    n_batch,        \* input_words.shape[0], where the batch axis is modelled
    all_node_loss,  \* the scan's node_loss output, [step][batch element]; <<>> if none
    all_edge_loss,  \* the scan's edge_loss output, [step][batch element]; <<>> if none
    elemwise_loss,  \* the sum of the output cross-entropy over the batch
    avg_graph_loss, \* <<>>, or avg_graph_loss
    query_loss,     \* <<>>, or query_loss
    full_loss,      \* <<>>, or full_loss
    node_accuracy,  \* <<>> for None, or the step's node_accuracy
    overall_accuracy, \* <<>> for None, or the step's overall_accuracy
    full_graph_accuracy, \* the scan's accuracy output, one entry per step
    graph_accurate_list, \* <<>> for None, or graph_accurate_list
    params,         \* how many optimizer updates the parameters have received
    learning_rate_var, \* the value of the shared learning-rate scalar
    srng,           \* how often the random stream's state has been advanced
    call,           \* the method or compiled function called last
    output_format,  \* the constructor's argument of that name
    setup_arg       \* the constructor's argument setup

vars == <<cfg, build, n_sentences, iter_dropouts, graph, pc, t, flat, gstate, correct,
          dropout_masks, new_strengths, new_ids, node_loss, edge_loss, trace,
          handed_masks, edge_loss_change, sequence_representation,
          all_flat_gstates, activations, final_gstate, aggregated_repr,
          train_with_query, n_batch, all_node_loss, all_edge_loss, elemwise_loss,
          avg_graph_loss, query_loss, full_loss, node_accuracy, overall_accuracy,
          full_graph_accuracy, graph_accurate_list, params, learning_rate_var,
          srng, call, output_format, setup_arg>>

\* The variables of the query path, and those of the recurrence.
query_state ==
    <<sequence_representation, all_flat_gstates, activations, final_gstate,
      aggregated_repr>>
\* The variables of the loss composition.
loss_state ==
    <<train_with_query, n_batch, all_node_loss, all_edge_loss, elemwise_loss,
      avg_graph_loss, query_loss, full_loss>>
\* The variables outside the recurrence and the query path.
aux_state ==
    <<loss_state, params, learning_rate_var, srng, call, output_format, setup_arg>>
\* The variables of the accuracy check.
accuracy_state ==
    <<node_accuracy, overall_accuracy, full_graph_accuracy, graph_accurate_list>>
scan_state ==
    <<iter_dropouts, graph, t, flat, gstate, correct, dropout_masks, new_strengths,
      new_ids, node_loss, edge_loss, trace, handed_masks, edge_loss_change,
      accuracy_state>>

\* The arguments of the four _build calls of setup.
with_correct_graph == build \in {"train", "eval"} /\ cfg.train_with_graph
snap_to_best == build = "snap"
using_dropout == build = "train"
evaluate_accuracy == build = "eval"

\* (new_nodes_per_iter, num_node_ids) pairs explored.
Shapes == {<<1, 3>>, <<2, 2>>}

\* How many options differ from the defaults of Model.__init__.
Deviations(c) ==
    Cardinality({x \in {<<1, ~c.dynamic_nodes>>, <<2, ~c.nodes_mutable>>,
                        <<3, c.word_node_mapping>>, <<4, c.intermediate_propagate # 0>>,
                        <<5, ~c.best_node_match_only>>, <<6, ~c.train_with_graph>>} :
                    x[2]})

\* The options explored: every combination within two changes of the
\* defaults, and every combination of the three optional stages.  An option
\* no branch reads under the other options keeps its default.
Configs ==
    {c \in [dynamic_nodes : BOOLEAN, nodes_mutable : BOOLEAN,
            word_node_mapping : BOOLEAN, intermediate_propagate : {0, 1},
            best_node_match_only : BOOLEAN, train_with_graph : BOOLEAN,
            new_nodes_per_iter : {1, 2}, num_node_ids : {2, 3}] :
        /\ <<c.new_nodes_per_iter, c.num_node_ids>> \in Shapes
        /\ \/ Deviations(c) <= 2
           \/ /\ c.new_nodes_per_iter = 1
              /\ c.dynamic_nodes /\ c.best_node_match_only /\ c.train_with_graph
        /\ ~c.dynamic_nodes => c.best_node_match_only
        /\ ~c.train_with_graph => c.best_node_match_only}

\* pad_graph_size
pad_graph_size ==
    IF cfg.dynamic_nodes
    THEN n_sentences * cfg.new_nodes_per_iter + 1
    ELSE cfg.num_node_ids

\* initial_gstate
initial_gstate ==
    IF cfg.dynamic_nodes THEN create_empty ELSE create_full_unique(cfg.num_node_ids)

\* The number of steps theano.scan runs: the length of its shortest sequence.
\* The dropout masks are among the sequences when using_dropout.
n_steps ==
    IF using_dropout THEN Min2(n_sentences, Len(iter_dropouts)) ELSE n_sentences

\* The slice of the sequences that step number i (from 0) receives as its
\* dropout masks; <<>> stands for None.
SliceOfDropouts(i) == IF using_dropout THEN << <<iter_dropouts[i + 1]>> >> ELSE <<>>

\* ----- inputs
\* util.make_dropout_mask: the mask explored for each length of the first
\* axis: every second entry is dropped.
DropoutSamples(len) ==
    {[i \in 1..len |-> i % 2]}

\* A ground-truth slot: 0 is the empty slot, d > 0 a new node with id d.
CorrectStrength(slot) == IF slot = 0 THEN 0 ELSE One
CorrectIds(nids, slot) == IF slot = 0 THEN ZeroIds(nids) ELSE OneHot(nids, slot)

NoCorrect == [num_new_nodes |-> 0, new_strengths |-> <<>>, new_node_ids |-> <<>>,
              edges |-> <<>>]

\* The ground-truth slot rows explored, in a fixed order: the one row of no
\* slot; every row of one slot; of two slots, two different nodes, no node,
\* and one node in either slot.
CorrectSlots(k, nids) ==
    IF k = 0 THEN << <<>> >>
    ELSE IF k = 1 THEN [i \in 1..(nids + 1) |-> <<(i % (nids + 1))>>]
    ELSE <<<<1, 2>>, <<0, 0>>, <<2, 0>>, <<0, 1>>>>

\* Ground-truth edge tensor number a of the padded size.
CorrectEdges(pad, a) ==
    [p \in Triples(pad) |-> IF (p[1] + p[2] + a) % 2 = 0 THEN One ELSE 0]

\* Slice number i of the ground truths explored: a slot row with an edge tensor.
CorrectSlice(i, k, nids, pad) ==
    LET rows == CorrectSlots(k, nids)
        slots == rows[(i % Len(rows)) + 1]
    IN [num_new_nodes |-> Cardinality({j \in 1..k : slots[j] # 0}),
        new_strengths |-> [j \in 1..k |-> CorrectStrength(slots[j])],
        new_node_ids |-> [j \in 1..k |-> CorrectIds(nids, slots[j])],
        edges |-> CorrectEdges(pad, (i \div Len(rows)) % 2)]

\* The inputs graph_num_new_nodes, graph_new_node_strengths,
\* graph_new_node_ids and graph_new_edges of one call, for n sentences: the
\* slices explored, in their order, from every starting slice.
CorrectGraphs(n, k, nids, pad) ==
    {[i \in 1..n |-> CorrectSlice(a + i, k, nids, pad)] :
        a \in 0..(2 * Len(CorrectSlots(k, nids)) - 1)}

\* What new_node_adder.get_candidates may propose for one slot.
SlotProposals(nids) ==
    <<[s |-> One, ids |-> OneHot(nids, 1)],
      [s |-> Half, ids |-> SplitIds(nids, 1)],
      [s |-> 0, ids |-> OneHot(nids, nids)]>>

\* The proposals explored for k slots: the slots differ from one another.
Proposals(k, nids) ==
    {[j \in 1..k |-> SlotProposals(nids)[((a + j) % 3) + 1]] : a \in 0..2}

\* What edge_state_updater.process may predict for n nodes.
EdgePredictions(n) ==
    {[p \in Triples(n) |-> (p[1] + 2 * p[2] + b) % 3] : b \in 0..1}

\* The edge loss taken after the ground-truth edges are in place.
StageOrderEdgesFirst ==
    <<"node_state_update", "direct_reference_update", "intermediate_propagate",
      "propose_nodes", "add_nodes", "edge_state_update", "set_edges", "edge_loss">>

\* ----- the stages of _iter_fn, in program order
StageOrder ==
    <<"node_state_update", "direct_reference_update", "intermediate_propagate",
      "propose_nodes", "add_nodes", "edge_state_update", "edge_loss", "set_edges">>

\* The condition under which _iter_fn runs a stage.
StageEnabled(s) ==
    CASE s = "node_state_update" -> cfg.nodes_mutable
      [] s = "direct_reference_update" -> cfg.word_node_mapping
      [] s = "intermediate_propagate" -> cfg.intermediate_propagate # 0
      [] s = "propose_nodes" -> cfg.dynamic_nodes
      [] s = "add_nodes" -> cfg.dynamic_nodes
      [] s = "edge_state_update" -> TRUE
      [] s = "edge_loss" -> with_correct_graph
      [] s = "set_edges" -> with_correct_graph \/ snap_to_best

\* The first enabled stage after position i of StageOrder, or the return.
StageAfter(i) ==
    LET later == {j \in (i + 1)..Len(StageOrder) : StageEnabled(StageOrder[j])} IN
    IF later = {} THEN "return"
    ELSE StageOrder[CHOOSE j \in later : \A m \in later : j <= m]

StageIndex(s) == CHOOSE i \in 1..Len(StageOrder) : StageOrder[i] = s

\* Leaving stage s: the trace gains the stage and control moves on.
Advance(s) ==
    /\ trace' = Append(trace, [stage |-> s, n_nodes |-> gstate.n_nodes])
    /\ pc' = StageAfter(StageIndex(s))

\* The loss composition has not been entered.
LossIdle ==
    /\ train_with_query = FALSE
    /\ n_batch = 1
    /\ all_node_loss = <<>>
    /\ all_edge_loss = <<>>
    /\ elemwise_loss = 0
    /\ avg_graph_loss = <<>>
    /\ query_loss = <<>>
    /\ full_loss = <<>>

\* The model as constructed, before any call.
Constructed ==
    /\ params = 0
    /\ srng = 0
    /\ call = "none"
    /\ output_format = "category"
    /\ setup_arg = TRUE

AuxIdle == LossIdle /\ Constructed /\ learning_rate_var = 1

\* No accuracy has been computed.
AccuracyIdle ==
    /\ node_accuracy = <<>>
    /\ overall_accuracy = <<>>
    /\ full_graph_accuracy = <<>>
    /\ graph_accurate_list = <<>>

Init ==
    /\ AuxIdle
    /\ AccuracyIdle
    /\ cfg \in Configs
    /\ build \in {"train", "eval", "fuzzy", "snap"}
    /\ build \in {"fuzzy", "snap"} => cfg.train_with_graph
    /\ n_sentences \in 1..MaxSentences
    /\ iter_dropouts \in
          IF build = "train"
          THEN UNION {DropoutSamples(len) : len \in 1..MaxMaskLen}
          ELSE {<<>>}
    /\ graph \in
          IF with_correct_graph
          THEN CorrectGraphs(n_sentences,
                             IF cfg.dynamic_nodes THEN cfg.new_nodes_per_iter ELSE 0,
                             cfg.num_node_ids, pad_graph_size)
          ELSE {<<>>}
    /\ pc = "scan"
    /\ t = 0
    /\ flat = flatten_to_const_size(initial_gstate, pad_graph_size, cfg.num_node_ids)
    /\ gstate = initial_gstate
    /\ correct = NoCorrect
    /\ dropout_masks = <<>>
    /\ new_strengths = <<>>
    /\ new_ids = <<>>
    /\ node_loss = <<>>
    /\ edge_loss = <<>>
    /\ trace = <<>>
    /\ handed_masks = {}
    /\ edge_loss_change = 0
    /\ sequence_representation = FALSE
    /\ all_flat_gstates = <<>>
    /\ activations = <<>>
    /\ final_gstate = <<>>
    /\ aggregated_repr = <<>>

\* _scan_fn up to its call of _iter_fn: the step's slices are unpacked and the
\* carried state is unflattened.
ScanStep ==
    /\ pc = "scan"
    /\ t < n_steps
    /\ correct' = IF with_correct_graph THEN graph[t + 1] ELSE NoCorrect
    /\ dropout_masks' = SliceOfDropouts(t)
    /\ gstate' = unflatten_from_const_size(flat)
    /\ new_strengths' = <<>>
    /\ new_ids' = <<>>
    /\ node_loss' = <<>>
    /\ edge_loss' = <<>>
    /\ trace' = <<>>
    /\ node_accuracy' = <<>>
    /\ overall_accuracy' = <<>>
    /\ pc' = StageAfter(0)
    /\ handed_masks' = handed_masks \cup {SliceOfDropouts(t)}
    /\ UNCHANGED <<cfg, build, n_sentences, iter_dropouts, graph, t, flat, edge_loss_change, 
                   full_graph_accuracy, graph_accurate_list, query_state, aux_state>>

\* node_state_updater.process: rewrites node_states only.
NodeStateUpdate ==
    /\ pc = "node_state_update"
    /\ Advance("node_state_update")
    /\ UNCHANGED <<cfg, build, n_sentences, iter_dropouts, graph, t, flat, gstate, correct,
                   dropout_masks, new_strengths, new_ids, node_loss, edge_loss,
                   handed_masks, edge_loss_change, accuracy_state,
                   query_state, aux_state>>

\* direct_reference_updater.process: rewrites node_states only.
DirectReferenceUpdate ==
    /\ pc = "direct_reference_update"
    /\ Advance("direct_reference_update")
    /\ UNCHANGED <<cfg, build, n_sentences, iter_dropouts, graph, t, flat, gstate, correct,
                   dropout_masks, new_strengths, new_ids, node_loss, edge_loss,
                   handed_masks, edge_loss_change, accuracy_state,
                   query_state, aux_state>>

\* intermediate_propagator.process_multiple: rewrites node_states only.
IntermediatePropagate ==
    /\ pc = "intermediate_propagate"
    /\ Advance("intermediate_propagate")
    /\ UNCHANGED <<cfg, build, n_sentences, iter_dropouts, graph, t, flat, gstate, correct,
                   dropout_masks, new_strengths, new_ids, node_loss, edge_loss,
                   handed_masks, edge_loss_change, accuracy_state,
                   query_state, aux_state>>

\* The node loss of the step, by the configured matching mode.
NodeLossOf(strs, ids, c) ==
    IF cfg.best_node_match_only
    THEN node_loss_best(strs, ids, c.new_strengths, c.new_node_ids)
    ELSE node_loss_sum(strs, ids, c.num_new_nodes, c.new_strengths, c.new_node_ids)

\* get_candidates, proposing one of Props, and, with the correct graph, the
\* node loss.
ProposeNodesFrom(Props) ==
    /\ pc = "propose_nodes"
    /\ \E prop \in Props :
          LET strs == [j \in DOMAIN prop |-> prop[j].s]
              ids == [j \in DOMAIN prop |-> prop[j].ids]
          IN /\ new_strengths' = strs
             /\ new_ids' = ids
             /\ node_loss' = IF with_correct_graph
                             THEN <<NodeLossOf(strs, ids, correct)>>
                             ELSE <<>>
             /\ node_accuracy' = IF with_correct_graph /\ evaluate_accuracy
                                 THEN <<NodeAccuracy(strs, ids, correct)>>
                                 ELSE <<>>
    /\ Advance("propose_nodes")
    /\ UNCHANGED <<cfg, build, n_sentences, iter_dropouts, graph, t, flat, gstate, correct,
                   dropout_masks, edge_loss,
                   handed_masks, edge_loss_change, overall_accuracy,
                   full_graph_accuracy, graph_accurate_list, query_state, aux_state>>

ProposeNodes == ProposeNodesFrom(Proposals(cfg.new_nodes_per_iter, cfg.num_node_ids))

\* Of the ground truth only the true new nodes are appended.
NodesToAddTrueOnly ==
    IF with_correct_graph
    THEN [strengths |-> SubSeq(correct.new_strengths, 1, correct.num_new_nodes),
          ids |-> SubSeq(correct.new_node_ids, 1, correct.num_new_nodes)]
    ELSE [strengths |-> new_strengths, ids |-> new_ids]

\* The nodes that enter the state: the ground truth, the snapped candidates
\* or the candidates as proposed.
NodesToAdd ==
    IF with_correct_graph
    THEN [strengths |-> correct.new_strengths, ids |-> correct.new_node_ids]
    ELSE IF snap_to_best
    THEN [strengths |-> [j \in DOMAIN new_strengths |-> independent_best(new_strengths[j])],
          ids |-> [j \in DOMAIN new_ids |-> categorical_best(new_ids[j])]]
    ELSE [strengths |-> new_strengths, ids |-> new_ids]

\* gstate.with_additional_nodes(...)
AddNodes ==
    /\ pc = "add_nodes"
    /\ gstate' = with_additional_nodes(gstate, NodesToAdd.strengths, NodesToAdd.ids)
    /\ new_strengths' = <<>>
    /\ new_ids' = <<>>
    /\ Advance("add_nodes")
    /\ UNCHANGED <<cfg, build, n_sentences, iter_dropouts, graph, t, flat, correct,
                   dropout_masks, node_loss, edge_loss,
                   handed_masks, edge_loss_change, accuracy_state,
                   query_state, aux_state>>

\* edge_state_updater.process, predicting one of Preds.
EdgeStateUpdateFrom(Preds) ==
    /\ pc = "edge_state_update"
    /\ \E e \in Preds :
          gstate' = with_updates_edges(gstate, e)
    /\ Advance("edge_state_update")
    /\ UNCHANGED <<cfg, build, n_sentences, iter_dropouts, graph, t, flat, correct,
                   dropout_masks, new_strengths, new_ids, node_loss, edge_loss,
                   handed_masks, edge_loss_change, accuracy_state,
                   query_state, aux_state>>

EdgeStateUpdate == EdgeStateUpdateFrom(EdgePredictions(gstate.n_nodes))

\* The entries of the cropped edge tensor at which the source or the
\* destination node has strength 0.
ZeroStrengthPairs(g) ==
    {p \in Triples(g.n_nodes) : g.node_strengths[p[1]] = 0 \/ g.node_strengths[p[2]] = 0}

\* Ground-truth edges altered at zero-strength nodes only: one such entry
\* flipped, or all of them.
AlteredEdges(g, correct_edges) ==
    LET Flip(S) == [p \in DOMAIN correct_edges |->
                       IF p \in S THEN One - correct_edges[p] ELSE correct_edges[p]]
    IN {Flip({p}) : p \in ZeroStrengthPairs(g)} \cup {Flip(ZeroStrengthPairs(g))}

\* The masked edge loss against the cropped ground-truth edges.
EdgeLossStage ==
    /\ pc = "edge_loss"
    /\ edge_loss' = <<EdgeLoss(gstate, correct.edges)>>
    /\ \E alt \in AlteredEdges(gstate, correct.edges) :
          edge_loss_change' = edge_loss_change
                                + EdgeLoss(gstate, alt) - EdgeLoss(gstate, correct.edges)
    /\ overall_accuracy' =
          IF evaluate_accuracy
          THEN <<OverallAccuracy(node_accuracy, EdgeAccuracy(gstate, correct.edges))>>
          ELSE <<>>
    /\ Advance("edge_loss")
    /\ UNCHANGED <<cfg, build, n_sentences, iter_dropouts, graph, t, flat, gstate, correct,
                   dropout_masks, new_strengths, new_ids, node_loss, handed_masks, 
                   node_accuracy, full_graph_accuracy, graph_accurate_list,
                   query_state, aux_state>>

\* The snapped predictions are kept also when the ground truth is known.
EdgesToSetSnapped ==
    [p \in Triples(gstate.n_nodes) |-> independent_best(gstate.edge_strengths[p])]

\* The ground-truth edges are added to the predicted ones.
EdgesToSetAdded ==
    IF with_correct_graph
    THEN [p \in Triples(gstate.n_nodes) |-> gstate.edge_strengths[p] + correct.edges[p]]
    ELSE [p \in Triples(gstate.n_nodes) |-> independent_best(gstate.edge_strengths[p])]

\* The snapping build keeps the predicted edges as they are.
EdgesToSetSoft ==
    IF with_correct_graph
    THEN cropped_correct_edges(correct.edges, gstate.n_nodes)
    ELSE gstate.edge_strengths

\* The edges that replace the predicted ones.
EdgesToSet ==
    IF with_correct_graph
    THEN cropped_correct_edges(correct.edges, gstate.n_nodes)
    ELSE [p \in Triples(gstate.n_nodes) |-> independent_best(gstate.edge_strengths[p])]

\* gstate.with_updates(edge_strengths=...)
SetEdges ==
    /\ pc = "set_edges"
    /\ gstate' = with_updates_edges(gstate, EdgesToSet)
    /\ Advance("set_edges")
    /\ UNCHANGED <<cfg, build, n_sentences, iter_dropouts, graph, t, flat, correct,
                   dropout_masks, new_strengths, new_ids, node_loss, edge_loss,
                   handed_masks, edge_loss_change, accuracy_state,
                   query_state, aux_state>>

\* The end of _scan_fn: the state is flattened and the step's outputs join
\* the scan's outputs.
ScanReturn ==
    /\ pc = "return"
    /\ flat' = flatten_to_const_size(gstate, pad_graph_size, cfg.num_node_ids)
    /\ t' = t + 1
    /\ full_graph_accuracy' =
          IF with_correct_graph /\ evaluate_accuracy
          THEN Append(full_graph_accuracy, overall_accuracy[1])
          ELSE full_graph_accuracy
    /\ pc' = "scan"
    /\ UNCHANGED <<cfg, build, n_sentences, iter_dropouts, graph, gstate, correct,
                   dropout_masks, new_strengths, new_ids, node_loss, edge_loss, trace,
                   handed_masks, edge_loss_change, 
                   node_accuracy, overall_accuracy, graph_accurate_list,
                   query_state, aux_state>>

\* theano.scan has run all its steps.
ScanEnd ==
    /\ pc = "scan"
    /\ t = n_steps
    /\ graph_accurate_list' =
          IF with_correct_graph /\ evaluate_accuracy
          THEN <<GraphAccurate(full_graph_accuracy)>>
          ELSE <<>>
    /\ pc' = "done"
    /\ UNCHANGED <<cfg, build, n_sentences, iter_dropouts, graph, t, flat, gstate, correct,
                   dropout_masks, new_strengths, new_ids, node_loss, edge_loss, trace,
                   handed_masks, edge_loss_change, 
                   node_accuracy, overall_accuracy, full_graph_accuracy,
                   query_state, aux_state>>

Next ==
    \/ ScanStep
    \/ NodeStateUpdate
    \/ DirectReferenceUpdate
    \/ IntermediatePropagate
    \/ ProposeNodes
    \/ AddNodes
    \/ EdgeStateUpdate
    \/ EdgeLossStage
    \/ SetEdges
    \/ ScanReturn
    \/ ScanEnd

Spec == Init /\ [][Next]_vars

\* ------------------------------------------- the node loss of one step alone
\* Every id distribution on the grid over two ids, with every strength.
GridSlotProposals ==
    {[s |-> v, ids |-> <<w, One - w>>] : v \in Grid, w \in Grid}

\* The proposals of one step: up to two slots every grid proposal; beyond
\* that the sample proposals, and every arrangement of the first two.
AllProposals(k) ==
    IF k <= 2 THEN [1..k -> GridSlotProposals]
    ELSE Proposals(k, 2) \cup [1..k -> {SlotProposals(2)[i] : i \in 1..2}]

\* One step in the evaluation build, about to propose: every ground-truth row
\* of k slots over two ids.
InitNodeLoss ==
    /\ AuxIdle
    /\ AccuracyIdle
    /\ cfg \in {c \in [dynamic_nodes : {TRUE}, nodes_mutable : {TRUE},
                       word_node_mapping : {FALSE}, intermediate_propagate : {0},
                       best_node_match_only : BOOLEAN, train_with_graph : {TRUE},
                       new_nodes_per_iter : 1..MaxNewNodes, num_node_ids : {2}] : TRUE}
    /\ build = "eval"
    /\ n_sentences = 1
    /\ iter_dropouts = <<>>
    /\ pc = "propose_nodes"
    /\ t = 0
    /\ flat = flatten_to_const_size(initial_gstate, pad_graph_size, cfg.num_node_ids)
    /\ gstate = initial_gstate
    /\ correct \in
          {[num_new_nodes |-> Cardinality({j \in 1..cfg.new_nodes_per_iter : slots[j] # 0}),
            new_strengths |-> [j \in 1..cfg.new_nodes_per_iter |-> CorrectStrength(slots[j])],
            new_node_ids |-> [j \in 1..cfg.new_nodes_per_iter |->
                                  CorrectIds(cfg.num_node_ids, slots[j])],
            edges |-> [p \in Triples(pad_graph_size) |-> 0]] :
              slots \in [1..cfg.new_nodes_per_iter -> 0..cfg.num_node_ids]}
    /\ graph = <<correct>>
    /\ dropout_masks = <<>>
    /\ new_strengths = <<>>
    /\ new_ids = <<>>
    /\ node_loss = <<>>
    /\ edge_loss = <<>>
    /\ trace = <<>>
    /\ handed_masks = {}
    /\ edge_loss_change = 0
    /\ sequence_representation = FALSE
    /\ all_flat_gstates = <<>>
    /\ activations = <<>>
    /\ final_gstate = <<>>
    /\ aggregated_repr = <<>>

ProposeAnyNodes == ProposeNodesFrom(AllProposals(cfg.new_nodes_per_iter))

NextNodeLoss == ProposeAnyNodes

SpecNodeLoss == InitNodeLoss /\ [][NextNodeLoss]_vars

\* ----------------------------------------------------------------- C1
\* The stages in the fixed order of the supervised step, each with the
\* option that enables it.
SupervisedOrder ==
    <<"node_state_update", "direct_reference_update", "intermediate_propagate",
      "propose_nodes", "add_nodes", "edge_state_update", "edge_loss", "set_edges">>

Rank(s) == CHOOSE i \in DOMAIN SupervisedOrder : SupervisedOrder[i] = s

SupervisedEnabled(s) ==
    /\ s = "node_state_update" => cfg.nodes_mutable
    /\ s = "direct_reference_update" => cfg.word_node_mapping
    /\ s = "intermediate_propagate" => cfg.intermediate_propagate # 0
    /\ s \in {"propose_nodes", "add_nodes"} => cfg.dynamic_nodes

Traced(s) == \E i \in DOMAIN trace : trace[i].stage = s

\* Control is inside _iter_fn or at its return: flat is still the state the
\* step was given.
InStep == pc \notin {"scan", "done"}

\* C1: a supervised step runs exactly its enabled stages, in the fixed
\* order; the node loss sees the state before the ground-truth nodes are
\* appended and the edge loss the state after.
C1_StageOrder ==
    with_correct_graph =>
        /\ \A i \in DOMAIN trace :
              /\ trace[i].stage \in {SupervisedOrder[j] : j \in DOMAIN SupervisedOrder}
              /\ SupervisedEnabled(trace[i].stage)
              /\ \A j \in DOMAIN trace :
                    i < j => Rank(trace[i].stage) < Rank(trace[j].stage)
              /\ \A j \in DOMAIN SupervisedOrder :
                    (j < Rank(trace[i].stage) /\ SupervisedEnabled(SupervisedOrder[j]))
                        => Traced(SupervisedOrder[j])
              /\ (trace[i].stage = "propose_nodes" /\ InStep) =>
                    trace[i].n_nodes = flat.n_nodes
              /\ (trace[i].stage = "edge_loss" /\ cfg.dynamic_nodes /\ InStep) =>
                    /\ trace[i].n_nodes = flat.n_nodes + cfg.new_nodes_per_iter
                    /\ Traced("add_nodes")
        /\ Traced("propose_nodes") <=> node_loss # <<>>
        /\ Traced("edge_loss") <=> edge_loss # <<>>
        /\ pc = "return" =>
              \A j \in DOMAIN SupervisedOrder :
                  SupervisedEnabled(SupervisedOrder[j]) => Traced(SupervisedOrder[j])

\* A supervised step that ran all eight stages, after an earlier step.
C1_Witness ==
    with_correct_graph /\ pc = "return" /\ Len(trace) = 8 /\ t >= 1

\* ----------------------------------------------------------------- C2
\* C2: after a supervised step the slots appended in the step hold the
\* step's ground-truth strengths and ids in slot order, and the edges are
\* the step's ground-truth edges cropped to the node count, whatever was
\* proposed and predicted; the carried state is that state.
C2_TeacherForcing ==
    /\ (with_correct_graph /\ pc = "return") =>
          /\ cfg.dynamic_nodes =>
                /\ gstate.n_nodes = flat.n_nodes + cfg.new_nodes_per_iter
                /\ \A j \in 1..cfg.new_nodes_per_iter :
                      /\ gstate.node_strengths[flat.n_nodes + j] = correct.new_strengths[j]
                      /\ gstate.node_ids[flat.n_nodes + j] = correct.new_node_ids[j]
          /\ gstate.edge_strengths = [p \in Triples(gstate.n_nodes) |-> correct.edges[p]]
          /\ (/\ cfg.dynamic_nodes /\ cfg.new_nodes_per_iter = 1 /\ cfg.num_node_ids = 3
              /\ t = 0 /\ correct.new_strengths = <<One>>
              /\ correct.new_node_ids = << <<One, 0, 0>> >>) =>
                /\ gstate.n_nodes = 1
                /\ gstate.node_strengths = <<One>>
                /\ gstate.node_ids = << <<One, 0, 0>> >>
    /\ (with_correct_graph /\ pc = "scan" /\ t > 0) =>
          unflatten_from_const_size(flat) = gstate

\* One sentence, one slot, three ids, a true node of id index 0, and a
\* proposal that the loss penalised.
C2_Witness ==
    /\ with_correct_graph /\ pc = "return"
    /\ cfg.dynamic_nodes /\ cfg.new_nodes_per_iter = 1 /\ cfg.num_node_ids = 3
    /\ n_sentences = 1 /\ t = 0
    /\ correct.new_strengths = <<One>> /\ correct.new_node_ids = << <<One, 0, 0>> >>
    /\ cfg.best_node_match_only /\ node_loss[1] > 0 /\ edge_loss[1] > 0
    /\ gstate.n_nodes = 1

\* ----------------------------------------------------------------- C3
\* C3: with dynamic_nodes the state starts empty, every step of every build
\* appends new_nodes_per_iter slots, so the carried state has
\* t * new_nodes_per_iter nodes, a step never leaves fewer nodes than it
\* got, and what is flattened fits pad_graph_size =
\* n_sentences * new_nodes_per_iter + 1.  Without dynamic_nodes the count is
\* num_node_ids throughout and so is pad_graph_size.
C3_NodeCount ==
    LET k == cfg.new_nodes_per_iter IN
    /\ cfg.dynamic_nodes =>
          /\ pad_graph_size = n_sentences * k + 1
          /\ flat.n_nodes = t * k
          /\ flat.n_nodes <= pad_graph_size
          /\ gstate.n_nodes \in {t * k, (t + 1) * k}
          /\ pc \in {"scan", "done"} => gstate.n_nodes = t * k
          /\ (InStep /\ Traced("add_nodes")) =>
                gstate.n_nodes = (t + 1) * k
          /\ pc = "return" =>
                /\ gstate.n_nodes = (t + 1) * k
                /\ gstate.n_nodes >= flat.n_nodes
                /\ gstate.n_nodes <= pad_graph_size
    /\ ~cfg.dynamic_nodes =>
          /\ pad_graph_size = cfg.num_node_ids
          /\ flat.n_nodes = cfg.num_node_ids
          /\ gstate.n_nodes = cfg.num_node_ids
    /\ Len(gstate.node_strengths) = gstate.n_nodes
    /\ Len(flat.node_strengths) = pad_graph_size

\* Two snapped steps of two slots each have been carried.
C3_Witness ==
    /\ cfg.dynamic_nodes /\ snap_to_best /\ pc = "done"
    /\ t = 2 /\ cfg.new_nodes_per_iter = 2 /\ flat.n_nodes = 4

\* ----------------------------------------------------------------- C8
\* The binary cross-entropy of one edge entry against a hard ground truth
\* (scale One).
Bce(c, e) == IF c = One THEN -One * LogEps(e) ELSE -One * LogEps(One - e)

\* C8: the step's edge loss is the sum over the entries of the cross-entropy
\* times source strength times destination strength; the entries at a
\* zero-strength node add nothing, and altering the ground-truth edges there
\* changes neither the step's edge loss nor the sum over the steps.
C8_EdgeLossMasking ==
    /\ edge_loss_change = 0
    /\ (with_correct_graph /\ pc = "set_edges") =>
          LET T3 == Triples(gstate.n_nodes)
              term == [p \in T3 |->
                          Bce(correct.edges[p], gstate.edge_strengths[p])
                            * gstate.node_strengths[p[1]] * gstate.node_strengths[p[2]]]
          IN /\ edge_loss[1] = SumOver(term, T3)
             /\ edge_loss[1] = SumOver(term, T3 \ ZeroStrengthPairs(gstate))
             /\ \A alt \in AlteredEdges(gstate, correct.edges) :
                   EdgeLoss(gstate, alt) = edge_loss[1]

\* In a later step, an entry at a zero-strength node whose cross-entropy
\* moves when its ground truth is flipped, beside entries that count.
C8_Witness ==
    /\ with_correct_graph /\ pc = "set_edges" /\ t >= 1
    /\ edge_loss[1] > 0
    /\ \E p \in ZeroStrengthPairs(gstate) :
          Bce(correct.edges[p], gstate.edge_strengths[p])
            # Bce(One - correct.edges[p], gstate.edge_strengths[p])

\* ---------------------------------------------------------------- C10
\* C10: with dropout, every step receives the same, complete masks that
\* were sampled for the pass, and the scan runs n_sentences steps.
C10_SameCompleteMasks ==
    using_dropout =>
        /\ \A m \in handed_masks : m = <<iter_dropouts>>
        /\ Cardinality(handed_masks) <= 1
        /\ pc = "done" => t = n_sentences

\* ------------------------------------ the node loss, computed by hand
\* Ground-truth slot j of the step: its strength and its id vector.
CorrectSlot(j) == [s |-> correct.new_strengths[j], ids |-> correct.new_node_ids[j]]
CorrectRow == [j \in 1..cfg.new_nodes_per_iter |-> CorrectSlot(j)]

SlotCount(row, v) == Cardinality({j \in DOMAIN row : row[j] = v})

\* The distinct rows that hold the ground-truth slots in some order.
Rearrangements ==
    LET vals == {CorrectRow[j] : j \in DOMAIN CorrectRow} IN
    {row \in [DOMAIN CorrectRow -> vals] :
        \A v \in vals : SlotCount(row, v) = SlotCount(CorrectRow, v)}

\* The negative log-likelihood, in units of log 2, of candidate slot j under
\* the ground-truth slot g: a true node must exist and carry its id, an
\* empty slot must not exist.
SlotNll(g, j) ==
    IF g.s = One
    THEN LET d == CHOOSE i \in DOMAIN g.ids : g.ids[i] = One
         IN -LogEps(new_strengths[j]) - LogEps(new_ids[j][d])
    ELSE -LogEps(One - new_strengths[j])

RowNll(row) == SumOver([j \in DOMAIN row |-> SlotNll(row[j], j)], DOMAIN row)

MinOf(S) == CHOOSE m \in S : \A x \in S : m <= x

\* The ground truth with its slots in the order of row.
Reordered(row) ==
    [correct EXCEPT !.new_strengths = [j \in DOMAIN row |-> row[j].s],
                    !.new_node_ids = [j \in DOMAIN row |-> row[j].ids]]

NodeLossComputed == pc = "add_nodes" /\ with_correct_graph /\ node_loss # <<>>

\* ----------------------------------------------------------------- C4

\* C4: with best_node_match_only the node loss is the least negative
\* log-likelihood over all orderings of the ground-truth slots; with two
\* slots it is the smaller of the two orderings tried by hand.
C4_BestMatchIsMinNll ==
    (NodeLossComputed /\ cfg.best_node_match_only) =>
        /\ node_loss[1] = One * MinOf({RowNll(row) : row \in Rearrangements})
        /\ cfg.new_nodes_per_iter = 2 =>
              node_loss[1] = One * Min2(RowNll(<<CorrectSlot(1), CorrectSlot(2)>>),
                                        RowNll(<<CorrectSlot(2), CorrectSlot(1)>>))

\* Two slots, one true new node, and the two orderings score differently.
C4_Witness ==
    /\ NodeLossComputed /\ cfg.best_node_match_only
    /\ cfg.new_nodes_per_iter = 2 /\ correct.num_new_nodes = 1
    /\ RowNll(<<CorrectSlot(1), CorrectSlot(2)>>) # RowNll(<<CorrectSlot(2), CorrectSlot(1)>>)
    /\ node_loss[1] > 0

\* ----------------------------------------------------------------- C5
\* C5: without best_node_match_only the node loss is minus the log of the
\* sum of the likelihoods of the distinct orderings of the ground truth,
\* each counted once, also when two true new nodes are identical.
C5_EachAssignmentOnce ==
    (NodeLossComputed /\ ~cfg.best_node_match_only) =>
        LET k == cfg.new_nodes_per_iter IN
        node_loss[1] =
            LogNeg(LogOf(SumOver([row \in Rearrangements |->
                                     Pow2(-RowNll(row) - LlFloor(k))], Rearrangements),
                         Pow2(-LlFloor(k))))

\* ----------------------------------------------------------------- C6

\* C6: without best_node_match_only and with no true new node, all k!
\* permutation terms are equal and the node loss is the negative
\* log-likelihood of the one assignment in which no slot exists.
C6_NoTrueNodes ==
    (NodeLossComputed /\ ~cfg.best_node_match_only /\ correct.num_new_nodes = 0) =>
        LET k == cfg.new_nodes_per_iter
            lls == AllPermLls(new_strengths, new_ids,
                              correct.new_strengths, correct.new_node_ids)
        IN /\ Cardinality(DOMAIN lls) = Factorial(k)
           /\ \A p \in DOMAIN lls : lls[p] = -One * RowNll(CorrectRow)
           /\ node_loss[1] = LogOf(Pow2(RowNll(CorrectRow)), 1)

\* Three slots, no true new node, a loss above zero.
C6_Witness ==
    /\ NodeLossComputed /\ ~cfg.best_node_match_only
    /\ cfg.new_nodes_per_iter = 3 /\ correct.num_new_nodes = 0
    /\ RowNll(CorrectRow) > 0

\* ----------------------------------------------------------------- C7

\* C7: in both modes the node loss is the same for every order of the
\* step's ground-truth slots.
C7_OrderOfGroundTruth ==
    NodeLossComputed =>
        \A row \in Rearrangements :
            NodeLossOf(new_strengths, new_ids, Reordered(row)) = node_loss[1]

\* A reordered ground truth that the candidates score differently slot by slot.
C7_Witness ==
    /\ NodeLossComputed
    /\ cfg.new_nodes_per_iter = 3
    /\ \E row \in Rearrangements : RowNll(row) # RowNll(CorrectRow)

\* ------------------------------------------------------ the query path
\* 1 / util.EPSILON
EpsInv == Pow2(-LogEpsilon)

\* A fraction in lowest terms with a positive denominator; 0/0 is 0.
Ratio(n, d) ==
    IF d = 0 THEN [num |-> 0, den |-> 1]
    ELSE LET g == GCD(IF n < 0 THEN -n ELSE n, d)
         IN [num |-> n \div g, den |-> d \div g]

\* exp(existence_penalty) = node_strength + EPSILON, in units of
\* 1 / (One * EpsInv).
existence_penalty(s) == s * EpsInv + One

\* The numerators of the softmax over the node axis:
\* exp(activation_strengths + existence_penalty).  act[i].e is
\* exp(activation_strengths) of slot i.
selector(g, act) ==
    [i \in 1..g.n_nodes |-> act[i].e * existence_penalty(g.node_strengths[i])]

\* tanh(activations[:,:,1:]), one unit wide.
representations(g, act) == [i \in 1..g.n_nodes |-> act[i].r]

\* AggregateRepresentationTransformation.process: the softmax-weighted sum
\* of the representations over the node axis.
process(g, act) ==
    LET w == selector(g, act)
        r == representations(g, act)
        N == 1..g.n_nodes
    IN Ratio(SumOver([i \in N |-> w[i] * r[i]], N), SumOver(w, N))

\* The state after step i of a pass in which slot j got strength str[j]:
\* slot j carries id (j - 1) % num_node_ids + 1 and no edges are set.
StateAfter(i, str) ==
    LET n == i * cfg.new_nodes_per_iter IN
    [n_nodes |-> n,
     node_strengths |-> [j \in 1..n |-> str[j]],
     node_ids |-> [j \in 1..n |-> OneHot(cfg.num_node_ids, ((j - 1) % cfg.num_node_ids) + 1)],
     edge_strengths |-> [p \in Triples(n) |-> 0]]

\* The scan has run: its output holds the flattened state after every step.
InitQuery ==
    /\ AuxIdle
    /\ AccuracyIdle
    /\ cfg \in {c \in [dynamic_nodes : {TRUE}, nodes_mutable : {TRUE},
                       word_node_mapping : {FALSE}, intermediate_propagate : {0},
                       best_node_match_only : {TRUE}, train_with_graph : {TRUE},
                       new_nodes_per_iter : {1}, num_node_ids : {2}] : TRUE}
    /\ build = "eval"
    /\ n_sentences \in 1..MaxSentences
    /\ sequence_representation \in BOOLEAN
    /\ \E str \in [1..(n_sentences * cfg.new_nodes_per_iter) -> Grid] :
          all_flat_gstates =
              [i \in 1..n_sentences |->
                  flatten_to_const_size(StateAfter(i, str), pad_graph_size,
                                        cfg.num_node_ids)]
    /\ activations \in [1..pad_graph_size -> [e : {1, 2}, r : {-1, 1}]]
    /\ final_gstate = <<>>
    /\ aggregated_repr = <<>>
    /\ pc = "extract"
    /\ t = n_sentences
    /\ flat = all_flat_gstates[n_sentences]
    /\ gstate = unflatten_from_const_size(flat)
    /\ iter_dropouts = <<>>
    /\ graph = <<>>
    /\ correct = NoCorrect
    /\ dropout_masks = <<>>
    /\ new_strengths = <<>>
    /\ new_ids = <<>>
    /\ node_loss = <<>>
    /\ edge_loss = <<>>
    /\ trace = <<>>
    /\ handed_masks = {}
    /\ edge_loss_change = 0

\* final_flat_gstate and final_gstate: with sequence_representation every
\* step's tensors, with the node count of the last step; else the last step.
ExtractFinal ==
    /\ pc = "extract"
    /\ final_gstate' =
          IF sequence_representation
          THEN [i \in 1..n_sentences |->
                   Unflatten(all_flat_gstates[i], all_flat_gstates[n_sentences].n_nodes)]
          ELSE <<unflatten_from_const_size(all_flat_gstates[n_sentences])>>
    /\ pc' = "aggregate"
    /\ UNCHANGED <<cfg, build, n_sentences, scan_state, sequence_representation,
                   all_flat_gstates, activations, aggregated_repr, aux_state>>

\* self.aggregator.process(propagated_gstate, ...)
Aggregate ==
    /\ pc = "aggregate"
    /\ aggregated_repr' =
          [i \in DOMAIN final_gstate |-> process(final_gstate[i], activations)]
    /\ pc' = "aggregated"
    /\ UNCHANGED <<cfg, build, n_sentences, scan_state, sequence_representation,
                   all_flat_gstates, activations, final_gstate, aux_state>>

NextQuery ==
    \/ ExtractFinal
    \/ Aggregate

SpecQuery == InitQuery /\ [][NextQuery]_vars

\* ----------------------------------------------------------------- C9
\* The state of step i as the scan left it, without padding slots.
Unpadded(i) ==
    unflatten_from_const_size(
        all_flat_gstates[IF sequence_representation THEN i ELSE n_sentences])

\* C9: padding slots have strength 0 and add nothing to what the query loss
\* is computed from: every aggregated representation equals that of the
\* same state without its padding slots, with sequence_representation too.
C9_PaddingAddsNothing ==
    pc = "aggregated" =>
        \A i \in DOMAIN final_gstate :
            /\ \A j \in 1..final_gstate[i].n_nodes :
                  j > Unpadded(i).n_nodes => final_gstate[i].node_strengths[j] = 0
            /\ aggregated_repr[i] = process(Unpadded(i), activations)

\* ------------------------------------------------- the loss composition
\* The recurrence is not running, and the query path has not been entered.
ScanIdle ==
    /\ iter_dropouts = <<>>
    /\ graph = <<>>
    /\ t = 0
    /\ flat = flatten_to_const_size(initial_gstate, pad_graph_size, cfg.num_node_ids)
    /\ gstate = initial_gstate
    /\ correct = NoCorrect
    /\ dropout_masks = <<>>
    /\ new_strengths = <<>>
    /\ new_ids = <<>>
    /\ node_loss = <<>>
    /\ edge_loss = <<>>
    /\ trace = <<>>
    /\ handed_masks = {}
    /\ edge_loss_change = 0
    /\ AccuracyIdle

QueryIdle ==
    /\ sequence_representation = FALSE
    /\ all_flat_gstates = <<>>
    /\ activations = <<>>
    /\ final_gstate = <<>>
    /\ aggregated_repr = <<>>

\* The sum of two fractions.
RatAdd(x, y) == Ratio(x.num * y.den + y.num * x.den, x.den * y.den)

\* T.sum of a [step][batch element] tensor.
SumAll(l) ==
    SumOver([i \in DOMAIN l |-> SumOver(l[i], DOMAIN l[i])], DOMAIN l)

\* reduced_node_loss and reduced_edge_loss: T.sum(loss) / n_batch
ReducedLoss(l) == Ratio(SumAll(l), n_batch)

\* The graph term divided by the batch size only.
AvgGraphLossUndivided ==
    IF cfg.dynamic_nodes
    THEN RatAdd(ReducedLoss(all_node_loss), ReducedLoss(all_edge_loss))
    ELSE ReducedLoss(all_edge_loss)

\* avg_graph_loss: the reduced losses over input_words.shape[1]
AvgGraphLoss ==
    LET g == IF cfg.dynamic_nodes
             THEN RatAdd(ReducedLoss(all_node_loss), ReducedLoss(all_edge_loss))
             ELSE ReducedLoss(all_edge_loss)
    IN Ratio(g.num, g.den * n_sentences)

\* query_loss = T.sum(elemwise_loss) / n_batch
QueryLoss == Ratio(elemwise_loss, n_batch)

\* full_loss: 0, plus the graph term, plus the query term.
FullLoss ==
    LET zero == Ratio(0, 1)
        g == IF with_correct_graph THEN RatAdd(zero, avg_graph_loss[1]) ELSE zero
    IN IF train_with_query THEN RatAdd(g, query_loss[1]) ELSE g

\* The per-step losses explored: element b of step i lost a + i * b.
LossSamples(steps, nb) ==
    {[i \in 1..steps |-> [b \in 1..nb |-> a + i * b]] : a \in 0..2}

\* The scan of a train or eval build has returned its outputs.
InitLoss ==
    /\ cfg \in {c \in Configs : c.new_nodes_per_iter = 1
                                /\ c.nodes_mutable /\ ~c.word_node_mapping
                                /\ c.intermediate_propagate = 0
                                /\ c.best_node_match_only}
    /\ build \in {"train", "eval"}
    /\ n_sentences \in 1..MaxSentences
    /\ ScanIdle
    /\ QueryIdle
    /\ pc = "reduce"
    /\ train_with_query \in BOOLEAN
    /\ n_batch \in 1..MaxBatch
    /\ all_node_loss \in
          IF with_correct_graph /\ cfg.dynamic_nodes
          THEN LossSamples(n_sentences, n_batch) ELSE {<<>>}
    /\ all_edge_loss \in
          IF with_correct_graph THEN LossSamples(n_sentences, n_batch) ELSE {<<>>}
    /\ elemwise_loss \in IF train_with_query THEN 0..2 ELSE {0}
    /\ avg_graph_loss = <<>>
    /\ query_loss = <<>>
    /\ full_loss = <<>>
    /\ Constructed
    /\ learning_rate_var = 1

\* The reduction of the scan's loss outputs.
ReduceGraphLoss ==
    /\ pc = "reduce"
    /\ avg_graph_loss' = IF with_correct_graph THEN <<AvgGraphLoss>> ELSE <<>>
    /\ pc' = "query"
    /\ UNCHANGED <<cfg, build, n_sentences, scan_state, query_state, train_with_query,
                   n_batch, all_node_loss, all_edge_loss, elemwise_loss, query_loss,
                   full_loss, params, learning_rate_var, srng, call,
                   output_format, setup_arg>>

\* The end of the query path.
ComputeQueryLoss ==
    /\ pc = "query"
    /\ query_loss' = IF train_with_query THEN <<QueryLoss>> ELSE <<>>
    /\ pc' = "full"
    /\ UNCHANGED <<cfg, build, n_sentences, scan_state, query_state, train_with_query,
                   n_batch, all_node_loss, all_edge_loss, elemwise_loss, avg_graph_loss,
                   full_loss, params, learning_rate_var, srng, call,
                   output_format, setup_arg>>

ComputeFullLoss ==
    /\ pc = "full"
    /\ full_loss' = <<FullLoss>>
    /\ pc' = "loss_done"
    /\ UNCHANGED <<cfg, build, n_sentences, scan_state, query_state, train_with_query,
                   n_batch, all_node_loss, all_edge_loss, elemwise_loss, avg_graph_loss,
                   query_loss, params, learning_rate_var, srng, call,
                   output_format, setup_arg>>

NextLoss ==
    \/ ReduceGraphLoss
    \/ ComputeQueryLoss
    \/ ComputeFullLoss

SpecLoss == InitLoss /\ [][NextLoss]_vars

\* ---------------------------------------------------------------- C11
\* The sum of the entries of a [step][batch element] tensor, entry by entry.
Total(l) ==
    LET cells == {<<i, b>> : i \in 1..n_sentences, b \in 1..n_batch}
    IN IF l = <<>> THEN 0 ELSE SumOver([c \in cells |-> l[c[1]][c[2]]], cells)

\* C11: the loss is (node loss sum / batch size + edge loss sum / batch size)
\* / n_sentences if the graph term is on, plus query loss / batch size if the
\* query term is on; one term alone if only one is on; without
\* dynamic_nodes the graph term is the edge loss only.
C11_TotalLoss ==
    pc = "loss_done" =>
        LET graph_on == cfg.train_with_graph
            node == IF cfg.dynamic_nodes THEN Total(all_node_loss) ELSE 0
            edge == Total(all_edge_loss)
            graph_term == Ratio(node + edge, n_batch * n_sentences)
            query_term == Ratio(elemwise_loss, n_batch)
        IN /\ (graph_on /\ train_with_query) =>
                 full_loss[1] = Ratio((node + edge) + elemwise_loss * n_sentences,
                                      n_batch * n_sentences)
           /\ (graph_on /\ ~train_with_query) => full_loss[1] = graph_term
           /\ (~graph_on /\ train_with_query) => full_loss[1] = query_term
           /\ (~graph_on /\ ~train_with_query) => full_loss[1] = Ratio(0, 1)
           /\ ~cfg.dynamic_nodes => all_node_loss = <<>>

\* Two sentences, two batch elements, both terms on and above zero.
C11_Witness ==
    /\ pc = "loss_done" /\ cfg.train_with_graph /\ train_with_query
    /\ cfg.dynamic_nodes /\ n_sentences = 2 /\ n_batch = 2
    /\ avg_graph_loss[1].num > 0 /\ query_loss[1].num > 0
    /\ full_loss[1] # avg_graph_loss[1]

\* ---------------------------------------------------------------- C12
\* The candidates snapped to hard values: a slot snapped to strength 0 has
\* the zero id vector.
SnappedSlot(s, ids) ==
    IF independent_best(s) = 0
    THEN [s |-> 0, ids |-> ZeroIds(Len(ids))]
    ELSE [s |-> One, ids |-> categorical_best(ids)]

\* The permutations of the ground truth of greatest likelihood.
MostLikely(strs, ids, c) ==
    {p \in perm_idxs(Len(strs)) :
        \A q \in perm_idxs(Len(strs)) :
            reduced_perm_lls(strs, ids, c.new_strengths, c.new_node_ids, q)
              <= reduced_perm_lls(strs, ids, c.new_strengths, c.new_node_ids, p)}

\* Under permutation p the snapped candidates are the ground truth.
SnappedMatch(strs, ids, c, p) ==
    \A j \in DOMAIN strs :
        SnappedSlot(strs[j], ids[j]) =
            [s |-> c.new_strengths[p[j]], ids |-> c.new_node_ids[p[j]]]

\* The node check of the step whose candidates are still at hand.
NodeCheck ==
    \E p \in MostLikely(new_strengths, new_ids, correct) :
        SnappedMatch(new_strengths, new_ids, correct, p)

\* The edge check of the step whose predicted edges are still in the state.
EdgeCheck ==
    \A p \in Triples(gstate.n_nodes) \ ZeroStrengthPairs(gstate) :
        independent_best(gstate.edge_strengths[p]) = correct.edges[p]

\* The accuracy is being evaluated.
Evaluating == build = "eval" /\ cfg.train_with_graph

\* C12: graph accuracy is true iff at every sentence step the node check
\* (snapped candidates equal the ground truth under the most likely
\* permutation) and the edge check (snapped edges equal the ground truth
\* except where source or destination strength is 0) both hold; one
\* inaccurate step makes the sequence inaccurate.
C12_GraphAccuracy ==
    Evaluating =>
        /\ pc = "add_nodes" => node_accuracy = <<NodeCheck>>
        /\ (pc = "set_edges" /\ cfg.dynamic_nodes) =>
              overall_accuracy = <<node_accuracy[1] /\ EdgeCheck>>
        /\ (pc = "set_edges" /\ ~cfg.dynamic_nodes) =>
              overall_accuracy = <<EdgeCheck>>
        /\ pc \in {"return", "set_edges"} => Len(full_graph_accuracy) = t
        /\ (pc = "scan" /\ t > 0) =>
              /\ Len(full_graph_accuracy) = t
              /\ full_graph_accuracy[t] = overall_accuracy[1]
        /\ pc = "done" =>
              /\ graph_accurate_list # <<>>
              /\ graph_accurate_list[1] <=>
                    ~(\E i \in 1..n_sentences : ~full_graph_accuracy[i])

\* Two steps were checked, the first accurate and the second not.
C12_Witness ==
    /\ Evaluating /\ pc = "done" /\ cfg.dynamic_nodes
    /\ full_graph_accuracy = <<TRUE, FALSE>>
    /\ graph_accurate_list = <<FALSE>>
    /\ gstate.n_nodes > 0

\* ------------------------------------ evaluation against the own predictions
\* What the snap build appends for a proposal, and what it stores for
\* predicted edges.
SnapOfProposal(prop) ==
    [strengths |-> [j \in DOMAIN prop |-> independent_best(prop[j].s)],
     ids |-> [j \in DOMAIN prop |-> categorical_best(prop[j].ids)]]
SnapOfEdges(e) == [p \in DOMAIN e |-> independent_best(e[p])]

\* The ground truth of one step that is the snap of a proposal and of an
\* edge prediction.
OwnSlice(prop, e) ==
    [num_new_nodes |->
        Cardinality({j \in DOMAIN prop : SnapOfProposal(prop).strengths[j] = One}),
     new_strengths |-> SnapOfProposal(prop).strengths,
     new_node_ids |-> SnapOfProposal(prop).ids,
     edges |-> SnapOfEdges(e)]

\* The ground truths of n sentences taken from the model's snapped output.
OwnGraphs(n, k, nids, pad) ==
    [1..n -> {OwnSlice(prop, e) : prop \in IF k = 0 THEN {<<>>} ELSE Proposals(k, nids),
                                  e \in EdgePredictions(pad)}]

\* The evaluation build, given the snapped predictions as the ground truth.
InitSelf ==
    /\ AuxIdle
    /\ QueryIdle
    /\ AccuracyIdle
    /\ cfg \in {c \in Configs : c.train_with_graph /\ c.best_node_match_only}
    /\ build = "eval"
    /\ n_sentences \in 1..MaxSentences
    /\ iter_dropouts = <<>>
    /\ graph \in OwnGraphs(n_sentences,
                           IF cfg.dynamic_nodes THEN cfg.new_nodes_per_iter ELSE 0,
                           cfg.num_node_ids, pad_graph_size)
    /\ pc = "scan"
    /\ t = 0
    /\ flat = flatten_to_const_size(initial_gstate, pad_graph_size, cfg.num_node_ids)
    /\ gstate = initial_gstate
    /\ correct = NoCorrect
    /\ dropout_masks = <<>>
    /\ new_strengths = <<>>
    /\ new_ids = <<>>
    /\ node_loss = <<>>
    /\ edge_loss = <<>>
    /\ trace = <<>>
    /\ handed_masks = {}
    /\ edge_loss_change = 0

\* get_candidates proposes what the ground truth was snapped from.
ProposeOwnNodes ==
    ProposeNodesFrom({prop \in Proposals(cfg.new_nodes_per_iter, cfg.num_node_ids) :
                         /\ SnapOfProposal(prop).strengths = correct.new_strengths
                         /\ SnapOfProposal(prop).ids = correct.new_node_ids})

\* edge_state_updater.process predicts what the ground truth was snapped from.
OwnEdgeStateUpdate ==
    EdgeStateUpdateFrom({e \in EdgePredictions(gstate.n_nodes) :
                            SnapOfEdges(e)
                              = cropped_correct_edges(correct.edges, gstate.n_nodes)})

NextSelf ==
    \/ ScanStep
    \/ NodeStateUpdate
    \/ DirectReferenceUpdate
    \/ IntermediatePropagate
    \/ ProposeOwnNodes
    \/ AddNodes
    \/ OwnEdgeStateUpdate
    \/ EdgeLossStage
    \/ SetEdges
    \/ ScanReturn
    \/ ScanEnd

SpecSelf == InitSelf /\ [][NextSelf]_vars

\* ---------------------------------------------------------------- C13
\* C13: given the model's own snapped predictions as the ground truth, eval
\* reports accuracy True, also when a candidate slot snaps to strength 0.
C13_SelfConsistent ==
    pc = "done" => graph_accurate_list = <<TRUE>>

\* ------------------------------------------- the calls made on a built model
\* The values set_learning_rate is called with.
LearningRates == 1..3

\* The update is applied twice in one call.
adam_updates_twice(p) == p + 2

\* train_fn's updates=adam_updates: the parameters receive one optimizer update.
adam_updates(p) == p + 1

\* The random stream behind the dropout masks is drawn from when the graph
\* was built with using_dropout, which only the train build is.
DrawsMasks(b) == b = "train"

\* A built model, before its first call.
InitCalls ==
    /\ cfg \in {c \in Configs : Deviations(c) <= 1 /\ c.new_nodes_per_iter = 1}
    /\ build = "train"
    /\ n_sentences = 1
    /\ pc = "built"
    /\ ScanIdle
    /\ QueryIdle
    /\ LossIdle
    /\ Constructed
    /\ learning_rate_var \in LearningRates

\* A call of a compiled function of build b: its updates are applied, and
\* the random stream advances if the graph draws dropout masks.
CallFn(name, b, updates) ==
    /\ call' = name
    /\ build' = b
    /\ params' = IF updates THEN adam_updates(params) ELSE params
    /\ srng' = IF DrawsMasks(b) THEN srng + 1 ELSE srng
    /\ UNCHANGED <<cfg, n_sentences, pc, scan_state, query_state, loss_state,
                   learning_rate_var, output_format, setup_arg>>

\* Model.train: train_fn, compiled with updates=adam_updates.
train ==
    /\ pc = "built"
    /\ params < MaxTrainCalls
    /\ CallFn("train", "train", TRUE)

\* Model.eval: eval_fn, compiled without updates.
eval ==
    /\ pc = "built"
    /\ CallFn("eval", "eval", FALSE)

\* debug_test_fn: the states of the eval build, compiled without updates.
debug_test_fn ==
    /\ pc = "built"
    /\ CallFn("debug_test_fn", "eval", FALSE)

\* fuzzy_test_fn: the free-running build, compiled without updates.
fuzzy_test_fn ==
    /\ pc = "built"
    /\ CallFn("fuzzy_test_fn", "fuzzy", FALSE)

\* snap_test_fn: the snapping build, compiled without updates.
snap_test_fn ==
    /\ pc = "built"
    /\ CallFn("snap_test_fn", "snap", FALSE)

\* Model.set_learning_rate
set_learning_rate ==
    /\ pc = "built"
    /\ \E lr \in LearningRates : learning_rate_var' = lr
    /\ call' = "set_learning_rate"
    /\ UNCHANGED <<cfg, build, n_sentences, pc, scan_state, query_state, loss_state,
                   params, srng, output_format, setup_arg>>

NextCalls ==
    \/ train
    \/ eval
    \/ debug_test_fn
    \/ fuzzy_test_fn
    \/ snap_test_fn
    \/ set_learning_rate

SpecCalls == InitCalls /\ [][NextCalls]_vars

\* ---------------------------------------------------------------- C14
\* What every call does to the parameters and the learning rate.
WriteDiscipline ==
    /\ call' = "train" => params' = params + 1 /\ learning_rate_var' = learning_rate_var
    /\ call' = "set_learning_rate" => params' = params
    /\ call' \in {"eval", "debug_test_fn", "fuzzy_test_fn", "snap_test_fn"} =>
          params' = params /\ learning_rate_var' = learning_rate_var

ModelOutputFormat == {"category", "subset", "sequence"}

\* What a caller may pass as output_format: a member, or something else.
OutputFormats == ModelOutputFormat \cup {"invalid"}

\* Everything the constructor leaves alone.
ctor_frame ==
    <<cfg, build, n_sentences, scan_state, query_state, loss_state, params,
      learning_rate_var, srng, call, output_format, setup_arg>>

\* Model.__init__ is entered with its arguments.
InitCtor ==
    /\ cfg \in {c \in Configs : Deviations(c) <= 1 /\ c.new_nodes_per_iter = 1}
    /\ build = "train"
    /\ n_sentences = 1
    /\ pc = "init"
    /\ ScanIdle
    /\ QueryIdle
    /\ train_with_query \in BOOLEAN
    /\ n_batch = 1
    /\ all_node_loss = <<>>
    /\ all_edge_loss = <<>>
    /\ elemwise_loss = 0
    /\ avg_graph_loss = <<>>
    /\ query_loss = <<>>
    /\ full_loss = <<>>
    /\ params = 0
    /\ learning_rate_var = 1
    /\ srng = 0
    /\ call = "none"
    /\ output_format \in OutputFormats
    /\ setup_arg \in BOOLEAN

\* The options are stored and the transformations of the recurrence are
\* made; then the branch on train_with_query.
MakeTransformations ==
    /\ pc = "init"
    /\ pc' = IF train_with_query THEN "query_transformations" ELSE "shared_variables"
    /\ UNCHANGED ctor_frame

\* Within the branch: the transformations of the query path.
MakeQueryTransformations ==
    /\ pc = "query_transformations"
    /\ pc' = "check_output_format"
    /\ UNCHANGED ctor_frame

\* Within the branch: assert output_format in ModelOutputFormat
CheckOutputFormat ==
    /\ pc = "check_output_format"
    /\ pc' = IF output_format \in ModelOutputFormat
             THEN "output_processor" ELSE "AssertionError"
    /\ UNCHANGED ctor_frame

\* Within the branch: the output processor of the format.
MakeOutputProcessor ==
    /\ pc = "output_processor"
    /\ pc' = "shared_variables"
    /\ UNCHANGED ctor_frame

\* srng and learning_rate_var are made; then setup is called if asked for.
MakeSharedVariables ==
    /\ pc = "shared_variables"
    /\ pc' = IF setup_arg THEN "setup" ELSE "constructed"
    /\ UNCHANGED ctor_frame

\* Model.setup: the computation graphs are built and compiled.
Setup ==
    /\ pc = "setup"
    /\ pc' = "built"
    /\ UNCHANGED ctor_frame

NextCtor ==
    \/ MakeTransformations
    \/ MakeQueryTransformations
    \/ CheckOutputFormat
    \/ MakeOutputProcessor
    \/ MakeSharedVariables
    \/ Setup

SpecCtor == InitCtor /\ [][NextCtor]_vars

\* ---------------------------------------------------------------- C15
\* C15: an invalid output_format is rejected at construction, before setup,
\* for every combination of the other options, train_with_query=False
\* included: with such a format the constructor never gets past the check.
C15_InvalidFormatRejected ==
    output_format \notin ModelOutputFormat =>
        pc \notin {"shared_variables", "setup", "built", "constructed"}

\* ---------------------------------------------------------------- C16
\* The slots of strength 1 of a state whose other slots have strength 0;
\* empty for any other state.
OnlyNode(g) ==
    {j \in 1..g.n_nodes :
        /\ g.node_strengths[j] = One
        /\ \A i \in 1..g.n_nodes : i # j => g.node_strengths[i] = 0}

\* C16: for a state with exactly one node of strength 1 and all others of
\* strength 0 the aggregator returns exactly tanh of that node's
\* representation, whatever the activations of the zero-strength nodes.
C16_OneHotSelector ==
    pc = "aggregated" =>
        \A i \in DOMAIN final_gstate :
            \A j \in OnlyNode(final_gstate[i]) :
                aggregated_repr[i] = Ratio(representations(final_gstate[i], activations)[j], 1)

\* ---------------------------------------------------------------- C17
\* The slots appended by a step that takes n nodes to n + k.
Appended(g, n, k) ==
    [strengths |-> [j \in 1..k |-> g.node_strengths[n + j]],
     ids |-> [j \in 1..k |-> g.node_ids[n + j]]]

\* What a free-running step does as it leaves its current stage.
FreeRunningStep ==
    /\ correct' = NoCorrect
    /\ node_loss' = <<>> /\ edge_loss' = <<>>
    /\ node_accuracy' = <<>> /\ overall_accuracy' = <<>>
    /\ full_graph_accuracy' = <<>> /\ graph_accurate_list' = <<>>
    /\ pc = "add_nodes" =>
          LET k == cfg.new_nodes_per_iter
              new == Appended(gstate', gstate.n_nodes, k)
          IN /\ gstate'.n_nodes = gstate.n_nodes + k
             /\ \A j \in 1..k :
                   IF build = "snap"
                   THEN /\ new.strengths[j] = (IF 2 * new_strengths[j] > One THEN One ELSE 0)
                        /\ new.strengths[j] \in {0, One}
                        /\ \E d \in DOMAIN new_ids[j] :
                              /\ new.ids[j] = OneHot(cfg.num_node_ids, d)
                              /\ \A e \in DOMAIN new_ids[j] : new_ids[j][e] <= new_ids[j][d]
                   ELSE /\ new.strengths[j] = new_strengths[j]
                        /\ new.ids[j] = new_ids[j]
    /\ pc = "edge_state_update" =>
          pc' = IF build = "snap" THEN "set_edges" ELSE "return"
    /\ pc = "set_edges" =>
          /\ build = "snap"
          /\ \A p \in Triples(gstate.n_nodes) :
                gstate'.edge_strengths[p] =
                    (IF 2 * gstate.edge_strengths[p] > One THEN One ELSE 0)
    /\ pc = "return" => unflatten_from_const_size(flat') = gstate

\* C17: without the correct graph a step never reads the ground truth; the
\* snapping build appends the snapped candidate strengths with one-hot
\* snapped ids and stores the snapped edges, the other builds take
\* candidates and edges as produced; no node loss, no edge loss and no
\* accuracy is produced.
C17_FreeRunning ==
    [][(~with_correct_graph /\ graph = <<>>) => FreeRunningStep]_vars

\* The snapping build is returning from its second step with a node snapped
\* to strength 0, a node snapped to strength 1 and snapped edges.
C17_Witness ==
    /\ build = "snap" /\ pc = "return" /\ t = 1
    /\ \E j \in 1..gstate.n_nodes : gstate.node_strengths[j] = 0 /\ gstate.node_ids[j] # ZeroIds(cfg.num_node_ids)
    /\ \E j \in 1..gstate.n_nodes : gstate.node_strengths[j] = One
    /\ \E p \in Triples(gstate.n_nodes) : gstate.edge_strengths[p] = One
    /\ node_loss = <<>> /\ edge_loss = <<>>

\* ---------------------------------------------------------------- C18
\* Every node strength and every edge strength of a state lies in [0, 1].
StrengthsInRange(g) ==
    /\ \A j \in DOMAIN g.node_strengths : 0 <= g.node_strengths[j] /\ g.node_strengths[j] <= One
    /\ \A p \in DOMAIN g.edge_strengths : 0 <= g.edge_strengths[p] /\ g.edge_strengths[p] <= One

\* C18: in every state carried by the recurrence, after every stage and
\* every substitution (ground truth, snapped or soft), all node strengths
\* and all edge strengths lie in [0, 1], in every build.
C18_StrengthsInRange ==
    StrengthsInRange(gstate) /\ StrengthsInRange(flat)

\* A state carried out of the second step of the free-running build, with a
\* soft node strength, a node strength of 1 and a soft edge strength.
C18_Witness ==
    /\ build = "fuzzy" /\ pc = "scan" /\ t = 2
    /\ \E j \in DOMAIN flat.node_strengths : flat.node_strengths[j] = Half
    /\ \E j \in DOMAIN flat.node_strengths : flat.node_strengths[j] = One
    /\ \E p \in DOMAIN flat.edge_strengths : flat.edge_strengths[p] = Half

\* ---------------------------------------------------------------- C19
\* C19: whatever train_with_graph and dynamic_nodes are, the evaluation
\* build has a defined accuracy output, the conjunction over the sentence
\* steps of the per-step accuracy.
C19_AccuracyDefined ==
    (build = "eval" /\ pc = "done") =>
        /\ graph_accurate_list # <<>>
        /\ Len(full_graph_accuracy) = n_sentences
        /\ graph_accurate_list[1] = (\A i \in 1..n_sentences : full_graph_accuracy[i])

====
